---- MODULE Spec2Model ----
(***************************************************************************)
(* The MySQL job store of hireling-mysql (class MysqlEngine).              *)
(*                                                                         *)
(* The job table is the only shared state.  Every method of MysqlEngine    *)
(* sends one statement, which the server runs atomically (autocommit),     *)
(* except reserve / atomicFindReady: it CALLs the stored procedure, a      *)
(* transaction of several statements whose first SELECT is a plain         *)
(* (non-locking, snapshot) read.  Calls made on different connections      *)
(* therefore interleave between that SELECT and the UPDATE that follows.   *)
(* The UPDATE takes the row lock and holds it until COMMIT, so UPDATE,     *)
(* the final SELECT and COMMIT are one step as seen by everybody else.     *)
(*                                                                         *)
(* Time.  DATETIME columns hold whole seconds.  The code only compares a   *)
(* deadline with the current time and sets it to NOW() plus a duration,    *)
(* so a deadline is stored relative to the current second: v stands for    *)
(* the instant now + v seconds, and every instant that is not after now    *)
(* is 0.  Tick lets one second pass.                                       *)
(***************************************************************************)
EXTENDS Integers, FiniteSets, Sequences, TLC

VARIABLES
  jobs,     \* the table: a function from the ids stored to their rows
  conn,     \* per connection: the reserve call in flight on it, if any
  last,     \* the operation completed by the last step and what it returned
  handed,   \* per job id: callers it was handed to since it last became processing
  schema,   \* the schema objects of the database: table, indexes, procedure
  engine    \* per engine (process): where its open() is and the events it emitted

vars == <<jobs, conn, last, handed, schema, engine>>

\* SQL NULL / JS null of a nullable column, id or count
NULL == -1

NumConns == 2
NumWorkers == 1
MaxAttempts == 1

\* the ids of the jobs added (CHAR(36) keys; two rows are what "this row and
\* every other row" needs)
JobIds == {1, 2}
Conns == 1..NumConns
WorkerIds == 1..NumWorkers

Statuses == {"ready", "processing", "done", "failed"}

(***************************************************************************)
(* SQL expressions                                                         *)
(***************************************************************************)

\* DATE_ADD with the fraction of the second cut off
DateAddTruncated(ms) == IF ms = NULL THEN NULL ELSE ms \div 1000

\* DATE_ADD(NOW(), INTERVAL (ms / 1000) SECOND) assigned to a DATETIME
\* column: NULL for a NULL duration, else the fractional result rounded to
\* whole seconds (half up); relative to now.
DateAdd(ms) == IF ms = NULL THEN NULL ELSE (ms + 500) \div 1000

\* `col <= ?` with the current time as parameter: NULL <= x is not true
Due(t) == t # NULL /\ t <= 0

\* the lease scan without its status condition
ExpiredRowsAnyStatus(t) == {j \in DOMAIN t : Due(t[j].expires)}

\* the rows `WHERE status = ? AND expires <= ?` ['processing', now] selects
ExpiredRows(t) ==
  {j \in DOMAIN t : t[j].status = "processing" /\ Due(t[j].expires)}

\* the stall scan waiting for the lease to run out as well
StalledRowsLeaseToo(t) ==
  {j \in DOMAIN t :
     t[j].status = "processing" /\ Due(t[j].stalls) /\ Due(t[j].expires)}

\* the rows `WHERE status = ? AND stalls <= ?` ['processing', now] selects
StalledRows(t) ==
  {j \in DOMAIN t : t[j].status = "processing" /\ Due(t[j].stalls)}

\* the lease scan forgetting to set the status back
ExpiredSetKeepStatus(r) ==
  [r EXCEPT !.workerid = NULL, !.attempts = @ + 1,
            !.expires = DateAdd(r.expirems)]

\* SET clause of refreshExpired
ExpiredSet(r) ==
  [r EXCEPT !.status = "ready", !.workerid = NULL, !.attempts = @ + 1,
            !.expires = DateAdd(r.expirems)]

\* SET clause of refreshStalled
StalledSet(r) ==
  [r EXCEPT !.status = "ready", !.workerid = NULL, !.attempts = @ + 1,
            !.stalls = DateAdd(r.stallms)]

\* the rows `WHERE status = 'ready'` of the claim procedure selects
ReadyRows(t) == {j \in DOMAIN t : t[j].status = "ready"}

\* the claim counting an attempt
ClaimSetCounting(r) ==
  [r EXCEPT !.status = "processing", !.attempts = @ + 1]

\* UPDATE ... SET status = 'processing' WHERE id = @j_id
ClaimSet(r) == [r EXCEPT !.status = "processing"]

\* UPDATE ... SET k = ? (k in Object.keys(values)) on one row
ApplyValues(r, values) ==
  [k \in DOMAIN r |-> IF k \in DOMAIN values THEN values[k] ELSE r[k]]

\* DELETE: the table without the rows of `gone`
Without(t, gone) == [j \in (DOMAIN t) \ gone |-> t[j]]

\* rows.affectedRows of an UPDATE/DELETE that matched the rows `m`
\* (mysql2 connects with FOUND_ROWS: matched rows are counted)
AffectedRows(m) == Cardinality(m)

(***************************************************************************)
(* Inputs                                                                  *)
(***************************************************************************)

\* the jobs add is called with: ready, unowned, never attempted; one that
\* gets its deadlines from its holder later, one created with a lease deadline
NewJobs ==
  {[status |-> "ready", workerid |-> NULL, attempts |-> 0,
    expires |-> NULL, expirems |-> 0, stalls |-> NULL, stallms |-> 500],
   [status |-> "ready", workerid |-> NULL, attempts |-> 0,
    expires |-> 1, expirems |-> 500, stalls |-> NULL, stallms |-> NULL]}

\* the (expires, stalls) a holder writes, in seconds from now: a lease that
\* outlasts the stall deadline, and one that does not
Deadlines == {<<1, 0>>, <<0, 1>>}

\* the `values` updateById is called with (Partial<JobAttr>): the job is
\* finished (no statement tells done from failed; failed is written in
\* CrudNext), its holder writes its deadlines, its counter is reset
UpdateValues ==
  {[status |-> "done"]}
  \cup {[workerid |-> w, expires |-> d[1], stalls |-> d[2]] :
          w \in WorkerIds, d \in Deadlines}
  \cup {[attempts |-> 0]}

(***************************************************************************)
(* Bookkeeping                                                             *)
(***************************************************************************)

Idle == [pc |-> "idle", jid |-> NULL, wid |-> NULL, snap |-> <<>>]

\* what a completed operation leaves to see: its name, its arguments (the
\* connection, the job id, the worker id, the keys of `values`; arg: the
\* payload of the job added or the filter of a bulk operation), what it
\* returned (n: a count, rows: the records or none) or that it threw (err),
\* and, for a scan, whether the operation just before it was the same scan
\* (again)
Scans == {"refreshExpired", "refreshStalled"}

\* a job passed without the `data` key
NoData == "undefined"

Blank ==
  [op |-> "", conn |-> NULL, id |-> NULL, wid |-> NULL, keys |-> {},
   arg |-> NoData, n |-> NULL, rows |-> <<>>, err |-> FALSE, again |-> FALSE]

Done(op, r) ==
  [r EXCEPT !.op = op, !.again = op \in Scans /\ last.op = op]

\* a job that is not processing (or not stored) is held by nobody
Held(t, h) ==
  [j \in JobIds |->
     IF j \in DOMAIN t /\ t[j].status = "processing" THEN h[j] ELSE 0]

\* the secondary indexes createTable adds
Indexes == {"status_expires", "status_stalls"}

\* a database in which nothing was created yet
NoSchema == [table |-> FALSE, indexes |-> {}, proc |-> FALSE]

\* the schema one complete run of createTable leaves
Installed == [table |-> TRUE, indexes |-> Indexes, proc |-> TRUE]

\* an engine after its constructor: open() not called (runs: the calls of
\* open so far; todo: the index statements the current call has still to
\* send; events: what was emitted, each with the call that emitted it;
\* raised: the errors statements of open were rejected with, each with the
\* call)
Constructed ==
  [pc |-> "new", runs |-> 0, todo |-> <<>>, events |-> <<>>, raised |-> {}]

\* DbEvent.open, and DbEvent.close with the error it carries
Event(run, ev) == [run |-> run, ev |-> ev]

\* an engine whose first open() emitted DbEvent.open
Opened ==
  [Constructed EXCEPT !.pc = "open", !.runs = 1,
                      !.events = <<Event(1, "open")>>]

\* every engine has been opened on a database that was empty
Init ==
  /\ jobs = <<>>
  /\ conn = [c \in Conns |-> Idle]
  /\ last = [Blank EXCEPT !.op = "open"]
  /\ handed = [j \in JobIds |-> 0]
  /\ schema = Installed
  /\ engine = [p \in Conns |-> Opened]

(***************************************************************************)
(* Operations                                                              *)
(***************************************************************************)

\* the payloads jobs are added with, written as JS literals: an empty list
\* and a list of one number
Payloads == {"[]", "[7]"}

\* Serializer.pack / Serializer.unpack (imported from hireling/serializer):
\* a codec that writes a list as its elements, so that the empty list packs
\* to the empty string; unpack is its inverse
Pack(v) == IF v = "[]" THEN "" ELSE "7"
Unpack(s) == IF s = "" THEN "[]" ELSE "[7]"

\* vals.push((key === 'data') ? Serializer.pack(val) : val)
ToMysql(job) ==
  IF "data" \in DOMAIN job THEN [job EXCEPT !.data = Pack(@)] ELSE job

\* fromMysql: if (mobj.data) mobj.data = Serializer.unpack(mobj.data); a row
\* without the data key stands for a NULL column, and of the strings only
\* the empty one is falsy
FromMysql(mobj) ==
  IF "data" \in DOMAIN mobj /\ mobj.data # ""
    THEN [mobj EXCEPT !.data = Unpack(@)] ELSE mobj

\* an INSERT that overwrites the row of a stored id
NoPrimaryKey(t, id) == FALSE

\* PRIMARY KEY (`id`): the INSERT of a stored id is rejected
DuplicateKey(t, id) == id \in DOMAIN t

\* job.data as passed
Payload(job) == IF "data" \in DOMAIN job THEN job.data ELSE NoData

\* add(job): INSERT of the job's keys, its data packed
add(id, job) ==
  /\ IF DuplicateKey(jobs, id)
       THEN /\ jobs' = jobs
            /\ last' = Done("add", [Blank EXCEPT !.id = id, !.err = TRUE,
                                                 !.arg = Payload(job)])
       ELSE /\ jobs' = [j \in (DOMAIN jobs) \cup {id} |->
                          IF j = id THEN ToMysql(job) ELSE jobs[j]]
            /\ last' = Done("add", [Blank EXCEPT !.id = id,
                                                 !.arg = Payload(job)])
  /\ handed' = Held(jobs', handed)
  /\ UNCHANGED <<conn, schema, engine>>

\* the claim procedure's SELECT without its WHERE clause
SelectAnyRow(t) == IF DOMAIN t = {} THEN {NULL} ELSE DOMAIN t

\* the values the procedure's SET @j_id := NULL; SELECT id INTO @j_id ...
\* WHERE status = 'ready' LIMIT 1 can leave in @j_id (which ready row is the
\* server's choice; NULL when there is none)
SelectReady(t) ==
  IF ReadyRows(t) = {} THEN {NULL}
  ELSE {j \in ReadyRows(t) : t[j].attempts < MaxAttempts}

\* a call in flight after that SELECT: @j_id and the row as the snapshot has it
Selected(j, wId, t) ==
  [pc |-> "selected", jid |-> j, wid |-> wId,
   snap |-> IF j = NULL THEN <<>> ELSE <<t[j]>>]

\* IF (@j_id IS NOT NULL) THEN UPDATE ... WHERE id = @j_id
ClaimUpdate(cr, t) ==
  IF cr.jid # NULL /\ cr.jid \in DOMAIN t
    THEN [t EXCEPT ![cr.jid] = ClaimSet(@)] ELSE t

\* the rows of the procedure's SELECT * ... WHERE id = @j_id, read in the
\* transaction's snapshot plus its own write: the row as just written when the
\* UPDATE changed it, else the row as it was at the first SELECT
SelectById(cr, t) ==
  IF cr.jid = NULL THEN <<>>
  ELSE IF cr.jid \in DOMAIN t /\ t[cr.jid].status # "processing"
    THEN <<ClaimUpdate(cr, t)[cr.jid]>>
  ELSE cr.snap

\* result ? fromMysql(result) : null, on a list of at most one row
Returned(rows) == IF rows = <<>> THEN <<>> ELSE <<FromMysql(rows[1])>>

\* what the client makes of the result: const [[[row]]] = ...; row || null
Reserved(cr, t) ==
  Done("reserve",
       [Blank EXCEPT
          !.id = IF SelectById(cr, t) = <<>> THEN NULL ELSE cr.jid,
          !.wid = cr.wid, !.rows = Returned(SelectById(cr, t))])

\* CALL of a procedure that does not exist: the query is rejected
NoProcedure(wId) == Done("reserve", [Blank EXCEPT !.wid = wId, !.err = TRUE])

\* the callers a job is handed to
Hand(cr, t, h) ==
  IF SelectById(cr, t) = <<>> THEN h ELSE [h EXCEPT ![cr.jid] = @ + 1]

\* reserve(wId) / atomicFindReady(wId) on a connection nobody else uses
\* concurrently: the whole CALL and the unwrapping of its result
reserve(wId) ==
  /\ \A c \in Conns : conn[c].pc = "idle"
  /\ IF schema.proc
       THEN \E j \in SelectReady(jobs) :
              LET cr == Selected(j, wId, jobs) IN
                /\ jobs' = ClaimUpdate(cr, jobs)
                /\ last' = Reserved(cr, jobs)
                /\ handed' = Held(jobs', Hand(cr, jobs, handed))
       ELSE /\ last' = NoProcedure(wId)
            /\ UNCHANGED <<jobs, handed>>
  /\ UNCHANGED <<conn, schema, engine>>

\* reserve called on connection c while other connections are active, first
\* step: the procedure's statements up to the SELECT ... INTO (a snapshot
\* read that takes no lock)
ReserveSelect(c, wId) ==
  /\ conn[c].pc = "idle"
  /\ IF schema.proc
       THEN /\ \E j \in SelectReady(jobs) :
                 conn' = [conn EXCEPT ![c] = Selected(j, wId, jobs)]
            /\ last' = Done("call", [Blank EXCEPT !.conn = c, !.wid = wId])
       ELSE /\ conn' = conn
            /\ last' = [NoProcedure(wId) EXCEPT !.conn = c]
  /\ UNCHANGED <<jobs, handed, schema, engine>>

\* second step: UPDATE (row lock held to the end), SELECT *, COMMIT, and the
\* unwrapping of the result
ReserveCommit(c) ==
  /\ conn[c].pc = "selected"
  /\ jobs' = ClaimUpdate(conn[c], jobs)
  /\ last' = [Reserved(conn[c], jobs) EXCEPT !.conn = c]
  /\ handed' = Held(jobs', Hand(conn[c], jobs, handed))
  /\ conn' = [conn EXCEPT ![c] = Idle]
  /\ UNCHANGED <<schema, engine>>

\* the rows `WHERE id = ?` selects
ById(t, id) == {j \in DOMAIN t : j = id}

\* the check of affectedRows left out
ThrowsNever(n) == FALSE

\* if (!rows || !rows.affectedRows) throw
Throws(n) == n = 0

\* updateById(id, values): one UPDATE; throws unless a row was affected
updateById(id, values) ==
  /\ jobs' = [j \in DOMAIN jobs |->
                IF j \in ById(jobs, id) THEN ApplyValues(jobs[j], values)
                ELSE jobs[j]]
  /\ last' = Done("updateById",
                  [Blank EXCEPT
                     !.id = id, !.keys = DOMAIN values,
                     !.n = AffectedRows(ById(jobs, id)),
                     !.err = Throws(AffectedRows(ById(jobs, id)))])
  /\ handed' = Held(jobs', handed)
  /\ UNCHANGED <<conn, schema, engine>>

\* removeById(id): one DELETE; throws unless a row was affected, else
\* returns true
removeById(id) ==
  /\ jobs' = Without(jobs, ById(jobs, id))
  /\ last' = Done("removeById",
                  [Blank EXCEPT
                     !.id = id, !.n = AffectedRows(ById(jobs, id)),
                     !.err = Throws(AffectedRows(ById(jobs, id)))])
  /\ handed' = Held(jobs', handed)
  /\ UNCHANGED <<conn, schema, engine>>

\* refreshExpired(): one bulk UPDATE; returns rows.affectedRows || 0
refreshExpired ==
  /\ jobs' = [j \in DOMAIN jobs |->
                IF j \in ExpiredRows(jobs) THEN ExpiredSet(jobs[j])
                ELSE jobs[j]]
  /\ last' = Done("refreshExpired",
                  [Blank EXCEPT !.n = AffectedRows(ExpiredRows(jobs))])
  /\ handed' = Held(jobs', handed)
  /\ UNCHANGED <<conn, schema, engine>>

\* refreshStalled(): one bulk UPDATE; returns rows.affectedRows || 0
refreshStalled ==
  /\ jobs' = [j \in DOMAIN jobs |->
                IF j \in StalledRows(jobs) THEN StalledSet(jobs[j])
                ELSE jobs[j]]
  /\ last' = Done("refreshStalled",
                  [Blank EXCEPT !.n = AffectedRows(StalledRows(jobs))])
  /\ handed' = Held(jobs', handed)
  /\ UNCHANGED <<conn, schema, engine>>

\* one second passes: every deadline still ahead comes one second closer
Elapse(r) ==
  [r EXCEPT !.expires = IF @ = NULL \/ @ = 0 THEN @ ELSE @ - 1,
            !.stalls = IF @ = NULL \/ @ = 0 THEN @ ELSE @ - 1]

Tick ==
  /\ jobs' = [j \in DOMAIN jobs |-> Elapse(jobs[j])]
  /\ conn' = [c \in Conns |->
                [conn[c] EXCEPT !.snap =
                   IF @ = <<>> THEN @ ELSE <<Elapse(@[1])>>]]
  /\ last' = Done("tick", Blank)
  /\ UNCHANGED <<handed, schema, engine>>

\* getById(id): rows[0] || null, through fromMysql
getById(id) ==
  /\ last' = Done("getById",
                  [Blank EXCEPT
                     !.id = id,
                     !.rows = IF id \in DOMAIN jobs
                                THEN Returned(<<jobs[id]>>) ELSE <<>>])
  /\ UNCHANGED <<jobs, conn, handed, schema, engine>>

\* a filter without keys: `WHERE ` followed by nothing is not a statement
SyntaxError(query) == DOMAIN query = {}

\* a WHERE clause in which NULL equals NULL
MatchesNullSafe(r, query) == \A k \in DOMAIN query : r[k] = query[k]

\* the columns declared NULL whose values are numbers here
Nullable == {"workerid", "expires", "expirems", "stalls", "stallms"}

\* the keys of a filter given as null
NullKeys(query) == {k \in DOMAIN query \cap Nullable : query[k] = NULL}

\* WHERE `k1` = ? AND `k2` = ? ... on one row: `col = NULL` is not true
Matches(r, query) ==
  NullKeys(query) = {} /\ \A k \in DOMAIN query : r[k] = query[k]

\* the rows the WHERE clause made from the keys of `query` selects
ByQuery(t, query) == {j \in DOMAIN t : Matches(t[j], query)}

\* get(query): SELECT * WHERE ...; every row through fromMysql (the rows are
\* kept by id here, the order of the result is the server's)
get(query) ==
  /\ last' = Done("get",
                  IF SyntaxError(query)
                    THEN [Blank EXCEPT !.arg = query, !.err = TRUE]
                    ELSE [Blank EXCEPT
                            !.arg = query,
                            !.rows = [j \in ByQuery(jobs, query) |->
                                        FromMysql(jobs[j])]])
  /\ UNCHANGED <<jobs, conn, handed, schema, engine>>

\* remove(query): one DELETE WHERE ...; returns rows.affectedRows || 0
remove(query) ==
  /\ IF SyntaxError(query)
       THEN /\ jobs' = jobs
            /\ last' = Done("remove",
                            [Blank EXCEPT !.arg = query, !.err = TRUE])
       ELSE /\ jobs' = Without(jobs, ByQuery(jobs, query))
            /\ last' = Done("remove",
                            [Blank EXCEPT
                               !.arg = query,
                               !.n = AffectedRows(ByQuery(jobs, query))])
  /\ handed' = Held(jobs', handed)
  /\ UNCHANGED <<conn, schema, engine>>

\* the rows `WHERE status = ?` selects
ByStatus(t, status) == {j \in DOMAIN t : t[j].status = status}

\* removeByStatus(status): one DELETE; returns rows.affectedRows || 0
removeByStatus(status) ==
  /\ jobs' = Without(jobs, ByStatus(jobs, status))
  /\ last' = Done("removeByStatus",
                  [Blank EXCEPT
                     !.arg = [status |-> status],
                     !.n = AffectedRows(ByStatus(jobs, status))])
  /\ handed' = Held(jobs', handed)
  /\ UNCHANGED <<conn, schema, engine>>

\* clear(): DELETE FROM the table; returns rows.affectedRows || 0
clear ==
  /\ jobs' = Without(jobs, DOMAIN jobs)
  /\ last' = Done("clear", [Blank EXCEPT !.n = AffectedRows(DOMAIN jobs)])
  /\ handed' = Held(jobs', handed)
  /\ UNCHANGED <<conn, schema, engine>>

(***************************************************************************)
(* open() and the schema bootstrap.  Every statement is awaited, so the    *)
(* statements of other engines run in between.  A statement can be         *)
(* rejected for reasons of its own (`fault`: the server refuses or cannot  *)
(* be reached).                                                            *)
(***************************************************************************)

MaxRuns == 2

\* the errors of the statements of open(): the connection refused, ALTER
\* TABLE ADD INDEX for an index name that exists (ER_DUP_KEYNAME), CREATE
\* PROCEDURE for a procedure that exists (ER_SP_ALREADY_EXISTS), and each
\* statement rejected for another reason
DupKeyName == "ER_DUP_KEYNAME"
ProcExists == "ER_SP_ALREADY_EXISTS"

\* the index statements in the order of the loop
IndexList == <<"status_expires", "status_stalls">>

\* a catch that lets every error through
SwallowsNone(err) == FALSE

\* catch (err) { // ignore existing index errors }: the block is empty and
\* has no condition, so it swallows whatever the statement was rejected with
Swallows(err) == TRUE

\* .catch(err => this.event(DbEvent.close, err)): the chain ends here
Rejected(e, err) ==
  [e EXCEPT !.pc = "closed", !.todo = <<>>,
            !.events = Append(@, Event(e.runs, err)),
            !.raised = @ \cup {<<e.runs, err>>}]

\* what a statement of open() leaves to see: the engine, and the error it
\* was rejected with, if any
Step(op, p, err) ==
  Done(op, [Blank EXCEPT !.conn = p, !.err = err # "none", !.arg = err])

\* open(): createConnection; its promise resolves or rejects
open(p) ==
  /\ engine[p].pc \in {"new", "open", "closed"}
  /\ engine[p].runs < MaxRuns
  /\ \E fault \in BOOLEAN :
       LET err == IF fault THEN "connect" ELSE "none"
           e == [engine[p] EXCEPT !.runs = @ + 1]
       IN  /\ engine' = [engine EXCEPT
                           ![p] = IF err # "none" THEN Rejected(e, err)
                                  ELSE [e EXCEPT !.pc = "table"]]
           /\ last' = Step("open", p, err)
  /\ UNCHANGED <<jobs, conn, handed, schema>>

\* createTable, first statement: CREATE TABLE IF NOT EXISTS
CreateTable(p) ==
  /\ engine[p].pc = "table"
  /\ \E fault \in BOOLEAN :
       LET err == IF fault THEN "create_table" ELSE "none"
       IN  /\ engine' = [engine EXCEPT
                           ![p] = IF err # "none" THEN Rejected(@, err)
                                  ELSE [@ EXCEPT !.pc = "index",
                                                 !.todo = IndexList]]
           /\ last' = Step("createTable", p, err)
           /\ schema' = IF err # "none" THEN schema
                         ELSE [schema EXCEPT !.table = TRUE]
  /\ UNCHANGED <<jobs, conn, handed>>

\* one turn of the loop over the index statements: ALTER TABLE ... ADD INDEX
\* in a try whose catch decides whether the loop goes on
AddIndex(p) ==
  /\ engine[p].pc = "index"
  /\ \E fault \in BOOLEAN :
       LET i == Head(engine[p].todo)
           err == IF fault THEN "add_index"
                  ELSE IF i \in schema.indexes THEN DupKeyName ELSE "none"
           on == [engine[p] EXCEPT
                    !.todo = Tail(@),
                    !.pc = IF Tail(engine[p].todo) = <<>> THEN "drop"
                           ELSE "index"]
       IN  /\ engine' = [engine EXCEPT
                           ![p] = IF err = "none" THEN on
                                  ELSE IF Swallows(err)
                                    THEN [on EXCEPT !.raised =
                                            @ \cup {<<on.runs, err>>}]
                                  ELSE Rejected(@, err)]
           /\ last' = Step("addIndex", p, err)
           /\ schema' = IF err = "none"
                           THEN [schema EXCEPT !.indexes = @ \cup {i}]
                         ELSE schema
  /\ UNCHANGED <<jobs, conn, handed>>

\* DROP PROCEDURE IF EXISTS
DropProcedure(p) ==
  /\ engine[p].pc = "drop"
  /\ \E fault \in BOOLEAN :
       LET err == IF fault THEN "drop_procedure" ELSE "none"
       IN  /\ engine' = [engine EXCEPT
                           ![p] = IF err # "none" THEN Rejected(@, err)
                                  ELSE [@ EXCEPT !.pc = "create"]]
           /\ last' = Step("dropProcedure", p, err)
           /\ schema' = IF err # "none" THEN schema
                         ELSE [schema EXCEPT !.proc = FALSE]
  /\ UNCHANGED <<jobs, conn, handed>>

\* CREATE PROCEDURE, and once it is done this.event(DbEvent.open)
CreateProcedure(p) ==
  /\ engine[p].pc = "create"
  /\ \E fault \in BOOLEAN :
       LET err == IF fault THEN "create_procedure"
                  ELSE IF schema.proc THEN ProcExists ELSE "none"
       IN  /\ engine' = [engine EXCEPT
                           ![p] = IF err # "none" THEN Rejected(@, err)
                                  ELSE [@ EXCEPT
                                          !.pc = "open",
                                          !.events =
                                            Append(@, Event(engine[p].runs,
                                                            "open"))]]
           /\ last' = Step("createProcedure", p, err)
           /\ schema' = IF err = "none" THEN [schema EXCEPT !.proc = TRUE]
                         ELSE schema
  /\ UNCHANGED <<jobs, conn, handed>>

\* conn.on('error', err => this.event(DbEvent.close, err)), for an engine
\* that is open: the connection is lost
connError(p) ==
  /\ engine[p].pc = "open"
  /\ engine' = [engine EXCEPT
                  ![p] = [@ EXCEPT
                            !.pc = "closed",
                            !.events = Append(@, Event(engine[p].runs,
                                                       "connection"))]]
  /\ last' = Done("connError", [Blank EXCEPT !.conn = p])
  /\ UNCHANGED <<jobs, conn, handed, schema>>

\* the operations that are one statement each
Statement ==
  \/ \E id \in JobIds, job \in NewJobs : add(id, job)
  \/ \E id \in JobIds, v \in UpdateValues : updateById(id, v)
  \/ \E id \in JobIds : removeById(id)
  \/ refreshExpired
  \/ refreshStalled
  \/ Tick

\* one engine, one connection (the statements of a connection are queued)
Next ==
  \/ Statement
  \/ \E w \in WorkerIds : reserve(w)

Spec == Init /\ [][Next]_vars

\* several engines (processes), or one with a pool: calls of the procedure
\* interleave with each other and with the statements of the other callers
ConcValues ==
  {[workerid |-> w, expires |-> 1, stalls |-> 1] : w \in WorkerIds}
  \cup {[status |-> "done"]}

ConcNext ==
  \/ \E id \in JobIds, job \in NewJobs : add(id, job)
  \/ \E c \in Conns, w \in WorkerIds : ReserveSelect(c, w)
  \/ \E c \in Conns : ReserveCommit(c)
  \/ \E id \in JobIds, v \in ConcValues : updateById(id, v)
  \/ refreshExpired
  \/ refreshStalled
  \/ Tick

ConcSpec == Init /\ [][ConcNext]_vars

\* the deadlines a holder writes after its claim
LeaseValues ==
  {[workerid |-> w, expires |-> d[1], stalls |-> d[2]] :
     w \in WorkerIds, d \in Deadlines}

\* jobs are added and claimed, their holders write deadlines and then
\* neither finish nor remove them; the host runs both scans and time passes
ScanNext ==
  \/ \E id \in JobIds, job \in NewJobs : add(id, job)
  \/ \E w \in WorkerIds : reserve(w)
  \/ \E id \in JobIds, v \in LeaseValues : updateById(id, v)
  \/ refreshExpired
  \/ refreshStalled
  \/ Tick

ScanSpec == Init /\ [][ScanNext]_vars

\* the jobs added with a payload
DataJobs ==
  {[status |-> "ready", workerid |-> NULL, attempts |-> 0,
    expires |-> NULL, expirems |-> 0, stalls |-> NULL, stallms |-> 500,
    data |-> v] : v \in Payloads}

\* the filters get and remove are called with (Partial<JobAttr>): none, one
\* and two keys, a null value
NoKeys == [k \in {} |-> NULL]
Queries ==
  {NoKeys, [status |-> "ready"], [status |-> "done"], [workerid |-> NULL],
   [status |-> "processing", workerid |-> NULL]}

\* the application: jobs with a payload are added, looked up, claimed,
\* finished and deleted, one call at a time
CrudNext ==
  \/ \E id \in JobIds, job \in DataJobs : add(id, job)
  \/ \E id \in JobIds : getById(id)
  \/ \E q \in Queries : get(q)
  \/ \E w \in WorkerIds : reserve(w)
  \/ \E id \in JobIds, s \in {"done", "failed"} :
       updateById(id, [status |-> s])
  \/ \E q \in Queries : remove(q)
  \/ \E st \in Statuses : removeByStatus(st)
  \/ clear

CrudSpec == Init /\ [][CrudNext]_vars

\* nothing has been opened and the database is empty
BootInit ==
  /\ jobs = <<>>
  /\ conn = [c \in Conns |-> Idle]
  /\ last = Blank
  /\ handed = [j \in JobIds |-> 0]
  /\ schema = NoSchema
  /\ engine = [p \in Conns |-> Constructed]

\* the steps of open() of engine p, and reserve called once it is open
Boot(p) ==
  \/ open(p)
  \/ CreateTable(p)
  \/ AddIndex(p)
  \/ DropProcedure(p)
  \/ CreateProcedure(p)
  \/ connError(p)
  \/ engine[p].pc = "open" /\ \E w \in WorkerIds : reserve(w)

\* one engine on its own database, opened up to MaxRuns times, adding jobs
\* while it is open
BootNext ==
  \/ Boot(1)
  \/ engine[1].pc = "open" /\ \E id \in JobIds, job \in NewJobs : add(id, job)

BootSpec == BootInit /\ [][BootNext]_vars

\* the engines of several processes on one database
ConcBootNext == \E p \in Conns : Boot(p)

ConcBootSpec == BootInit /\ [][ConcBootNext]_vars

\* the workers crash right after reserve returned (no update, no remove), the
\* host keeps running both scans and time passes
LiveNext ==
  \/ \E id \in JobIds, job \in NewJobs : add(id, job)
  \/ \E w \in WorkerIds : reserve(w)
  \/ refreshExpired
  \/ refreshStalled
  \/ Tick

LiveSpec ==
  /\ Init /\ [][LiveNext]_vars
  /\ WF_vars(refreshExpired) /\ WF_vars(refreshStalled) /\ WF_vars(Tick)

(***************************************************************************)
(* Claims                                                                  *)
(***************************************************************************)

Stored(j) == j \in DOMAIN jobs

\* C1: mutual exclusion of reserve.  Under any interleaving of concurrent
\* reserve calls, a job is handed to at most one caller while it stays in
\* processing; it is handed out again only after it left processing.
C1_MutualExclusion == \A j \in JobIds : handed[j] <= 1

\* C2: abandoned jobs come back.  With both scans run again and again and
\* time passing, every job that reserve moved to processing and that nobody
\* updates or removes afterwards is eventually ready again.
C2_AbandonedComeBack ==
  \A j \in JobIds :
    (Stored(j) /\ jobs[j].status = "processing")
      ~> (Stored(j) /\ jobs[j].status = "ready")

\* C3: with nothing running concurrently, the record reserve(w) returns has
\* status processing and workerid w, and so has the stored row of that job
\* when reserve returns.
C3_ReserveReturnsOwned ==
  (last.op = "reserve" /\ last.rows # <<>>) =>
    /\ last.rows[1].status = "processing"
    /\ last.rows[1].workerid = last.wid
    /\ Stored(last.id)
    /\ jobs[last.id].status = "processing"
    /\ jobs[last.id].workerid = last.wid

\* C4: in every reachable state of the table, every row whose status is
\* processing has a workerid that is not null.
C4_ProcessingHasWorker ==
  \A j \in DOMAIN jobs :
    jobs[j].status = "processing" => jobs[j].workerid # NULL

\* a deadline that is not after the current time (never so when NULL)
Past(t) == t # NULL /\ t <= 0

\* a deadline that is after the current time
Ahead(t) == t # NULL /\ t > 0

\* the columns of row j that differ between the two states of a step
Changed(j) == {k \in DOMAIN jobs[j] : jobs'[j][k] # jobs[j][k]}

\* C5: refreshExpired changes exactly the rows that are processing with
\* expires <= now: each gets status ready, workerid null and attempts + 1;
\* every other row is left as it was; the number returned is the number of
\* rows changed.
C5_RefreshExpiredExact ==
  [][last'.op = "refreshExpired" =>
       /\ DOMAIN jobs' = DOMAIN jobs
       /\ \A j \in DOMAIN jobs :
            IF jobs[j].status = "processing" /\ Past(jobs[j].expires)
              THEN /\ jobs'[j].status = "ready"
                   /\ jobs'[j].workerid = NULL
                   /\ jobs'[j].attempts = jobs[j].attempts + 1
              ELSE jobs'[j] = jobs[j]
       /\ last'.n = Cardinality({j \in DOMAIN jobs : jobs'[j] # jobs[j]})
       /\ ~last'.err]_vars

\* a lease scan has just requeued one row and left alone a processing row
\* whose lease has not run out
C5_Witness ==
  /\ last.op = "refreshExpired" /\ last.n = 1
  /\ \E j \in DOMAIN jobs :
       jobs[j].status = "ready" /\ jobs[j].attempts = 1
  /\ \E j \in DOMAIN jobs :
       jobs[j].status = "processing" /\ ~Past(jobs[j].expires)

\* C6: stall recovery does not depend on the lease.  A processing job whose
\* expires is still ahead and whose stalls is past is left unchanged by
\* refreshExpired, and refreshStalled returns it to ready (workerid null,
\* attempts + 1).
C6_StallIndependent ==
  [][\A j \in DOMAIN jobs :
       (jobs[j].status = "processing" /\ Ahead(jobs[j].expires)
          /\ Past(jobs[j].stalls)) =>
         /\ last'.op = "refreshExpired" => jobs'[j] = jobs[j]
         /\ last'.op = "refreshStalled" =>
              /\ jobs'[j].status = "ready"
              /\ jobs'[j].workerid = NULL
              /\ jobs'[j].attempts = jobs[j].attempts + 1
              /\ jobs'[j].expires = jobs[j].expires]_vars

\* a stall scan has just requeued the only row, whose lease is still ahead
C6_Witness ==
  /\ last.op = "refreshStalled" /\ last.n = 1
  /\ \E j \in DOMAIN jobs :
       /\ DOMAIN jobs = {j}
       /\ jobs[j].status = "ready" /\ jobs[j].attempts = 1
       /\ Ahead(jobs[j].expires)

\* C7: each scan is idempotent.  Run a second time right after itself, with
\* nothing in between, it changes no row and returns 0.
C7_ScanIdempotent ==
  [][(last'.op \in Scans /\ last'.again) =>
       (jobs' = jobs /\ last'.n = 0)]_vars

\* the second of two lease scans in a row has returned, and a row the first
\* one requeued has a deadline that is already past again
C7_Witness ==
  /\ last.op = "refreshExpired" /\ last.again /\ last.n = 0
  /\ \E j \in DOMAIN jobs :
       /\ jobs[j].status = "ready" /\ jobs[j].attempts = 1
       /\ Past(jobs[j].expires)

\* C8 as claimed: the attempts counter of a stored job never decreases, and
\* changes only in a step in which a scan moves the job from processing
\* back to ready.
C8_AttemptsOnlyByScan ==
  [][\A j \in DOMAIN jobs \cap DOMAIN jobs' :
       /\ jobs'[j].attempts >= jobs[j].attempts
       /\ jobs'[j].attempts # jobs[j].attempts =>
            /\ last'.op \in Scans
            /\ jobs[j].status = "processing"
            /\ jobs'[j].status = "ready"]_vars

\* C8 as amended: while a job stays stored, its attempts counter changes only
\* in a step in which a scan moves the job from processing back to ready,
\* where it grows by exactly 1, or in an updateById of that job whose values
\* name attempts.
C8_AttemptsByScanOrUpdate ==
  [][\A j \in DOMAIN jobs \cap DOMAIN jobs' :
       jobs'[j].attempts # jobs[j].attempts =>
         \/ /\ last'.op \in Scans
            /\ jobs[j].status = "processing"
            /\ jobs'[j].status = "ready"
            /\ jobs'[j].attempts = jobs[j].attempts + 1
         \/ /\ last'.op = "updateById"
            /\ last'.id = j
            /\ "attempts" \in last'.keys]_vars

\* a stall scan has just requeued a row, which now counts one attempt, while
\* a row that was reserved and then set to done still counts none
C8_Witness ==
  /\ last.op = "refreshStalled" /\ last.n = 1
  /\ \E j \in DOMAIN jobs :
       jobs[j].status = "ready" /\ jobs[j].attempts = 1
  /\ \E j \in DOMAIN jobs :
       jobs[j].status = "done" /\ jobs[j].attempts = 0

\* C9: reserve on a table with no ready row returns null, raises no error
\* and leaves every row as it was.
C9_ReserveNoReady ==
  [][(last'.op = "reserve"
        /\ \A j \in DOMAIN jobs : jobs[j].status # "ready") =>
       /\ last'.rows = <<>>
       /\ last'.id = NULL
       /\ ~last'.err
       /\ jobs' = jobs]_vars

\* reserve has just returned null on a table that holds a processing row and
\* a finished one
C9_Witness ==
  /\ last.op = "reserve" /\ last.rows = <<>> /\ ~last.err
  /\ \E j \in DOMAIN jobs : jobs[j].status = "processing"
  /\ \E j \in DOMAIN jobs : jobs[j].status \in {"done", "failed"}

\* C10: updateById and removeById with an id that is not stored throw and
\* leave the table as it was; with a stored id they change (delete) that row
\* and no other, updateById changes no column but those of `values`, and
\* removeById returns true.
C10_ByIdPrecise ==
  [][last'.op \in {"updateById", "removeById"} =>
       IF last'.id \notin DOMAIN jobs
         THEN last'.err /\ jobs' = jobs
         ELSE /\ \A j \in DOMAIN jobs \ {last'.id} :
                   j \in DOMAIN jobs' /\ jobs'[j] = jobs[j]
              /\ last'.op = "updateById" =>
                   /\ DOMAIN jobs' = DOMAIN jobs
                   /\ Changed(last'.id) \subseteq last'.keys
              /\ last'.op = "removeById" =>
                   /\ DOMAIN jobs' = DOMAIN jobs \ {last'.id}
                   /\ ~last'.err]_vars

\* removeById has just deleted one of two rows and returned true
C10_Witness ==
  /\ last.op = "removeById" /\ ~last.err /\ last.n = 1
  /\ last.id \notin DOMAIN jobs
  /\ DOMAIN jobs # {}

BulkDeletes == {"remove", "removeByStatus", "clear"}

\* C11: remove(filter), removeByStatus(status) and clear() delete exactly the
\* rows that match (each field of the filter equal to the row's; all rows
\* for clear), leave every other row unchanged and return the number of rows
\* deleted; when no row matches they return 0 and raise no error.
C11_BulkDeleteExact ==
  [][last'.op \in BulkDeletes =>
       LET gone == {j \in DOMAIN jobs :
                      last'.op = "clear"
                        \/ MatchesNullSafe(jobs[j], last'.arg)}
       IN  /\ ~last'.err
           /\ jobs' = Without(jobs, gone)
           /\ last'.n = Cardinality(gone)]_vars

\* C12: add with an id that is already stored fails with an error and
\* leaves the stored row of that id and every other row unchanged; add with
\* a new id stores one more row and changes no other.
C12_AddRejectsStoredId ==
  [][last'.op = "add" =>
       IF last'.id \in DOMAIN jobs
         THEN last'.err /\ jobs' = jobs
         ELSE /\ ~last'.err
              /\ DOMAIN jobs' = DOMAIN jobs \cup {last'.id}
              /\ \A j \in DOMAIN jobs : jobs'[j] = jobs[j]]_vars

\* add has just been rejected for the id of a row that is done, next to
\* another row
C12_Witness ==
  /\ last.op = "add" /\ last.err
  /\ Stored(last.id) /\ jobs[last.id].status = "done"
  /\ DOMAIN jobs # {last.id}

\* C13: getById right after the add of a job with data = v returns a record
\* whose data equals v, for every payload v, also one whose packed form is
\* empty.
C13_PayloadRoundTrip ==
  [][(last.op = "add" /\ ~last.err
        /\ last'.op = "getById" /\ last'.id = last.id) =>
       /\ last'.rows # <<>>
       /\ last'.rows[1].data = last.arg]_vars

\* the errors raised in call `run` of open() of engine e
RaisedIn(e, run) == {x[2] : x \in {y \in e.raised : y[1] = run}}

\* what call `run` of open() of engine e emitted, in order
EventsOf(e, run) ==
  LET evs == SelectSeq(e.events, LAMBDA v : v.run = run)
  IN  [i \in 1..Len(evs) |-> evs[i].ev]

\* open() was called and its latest call has come to its end
Ended(e) == e.runs >= 1 /\ e.pc \in {"open", "closed"}

\* nothing from outside went wrong in any call so far: no statement was
\* rejected except an ADD INDEX of a later call for an index that exists,
\* and the connection was not lost
Undisturbed(e) ==
  /\ \A x \in e.raised : x[1] > 1 /\ x[2] = DupKeyName
  /\ \A i \in 1..Len(e.events) : e.events[i].ev # "connection"

BootOps ==
  {"open", "createTable", "addIndex", "dropProcedure", "createProcedure",
   "connError"}

\* C14: the schema bootstrap is idempotent.  After every undisturbed call of
\* open() on the engine's own database, the first as well as a later one,
\* the table, both indexes and the procedure exist, every call has emitted
\* DbEvent.open and nothing else (no error escaped), and no step of the
\* bootstrap changes a row.
C14_BootstrapIdempotent ==
  /\ [](\A p \in Conns :
          (Ended(engine[p]) /\ Undisturbed(engine[p])) =>
            /\ schema = Installed
            /\ Len(engine[p].events) = engine[p].runs
            /\ \A i \in 1..engine[p].runs :
                 engine[p].events[i] = Event(i, "open"))
  /\ [][last'.op \in BootOps => jobs' = jobs]_vars

\* a second call of open() has ended with DbEvent.open on a table that holds
\* a row, after both of its index statements were rejected for an index
\* that exists
C14_Witness ==
  /\ engine[1].runs = 2 /\ engine[1].pc = "open"
  /\ engine[1].raised =
       {<<2, DupKeyName>>}
  /\ engine[1].events = <<Event(1, "open"), Event(2, "open")>>
  /\ schema = Installed
  /\ DOMAIN jobs # {}

\* C15: an index statement rejected because the index exists is swallowed
\* and the bootstrap goes on; an index statement rejected for any other
\* reason makes the bootstrap fail with that error: the call of open() ends
\* there with DbEvent.close carrying it.
C15_OnlyDuplicateSwallowed ==
  [][\A p \in Conns :
       (last'.op = "addIndex" /\ last'.conn = p /\ last'.err) =>
         IF last'.arg = DupKeyName
           THEN /\ engine'[p].pc \in {"index", "drop"}
                /\ engine'[p].events = engine[p].events
           ELSE /\ engine'[p].pc = "closed"
                /\ engine'[p].events =
                     Append(engine[p].events,
                            Event(engine[p].runs, last'.arg))]_vars

\* C16: a call of open() emits DbEvent.open only if connecting and every
\* statement of the bootstrap went through without an error (an ADD INDEX
\* for an index that exists aside); if one failed, it emits DbEvent.close
\* with an error of that call and does not emit DbEvent.open.
C16_OpenOnlyAfterBootstrap ==
  \A p \in Conns :
    Ended(engine[p]) =>
      LET errs == RaisedIn(engine[p], engine[p].runs) \ {DupKeyName}
          evs == EventsOf(engine[p], engine[p].runs)
      IN  /\ Len(evs) >= 1
          /\ IF errs = {} THEN evs[1] = "open"
             ELSE /\ evs[1] \in errs
                  /\ \A i \in 1..Len(evs) : evs[i] # "open"

\* C20: reserve called by an engine that is open never fails for a missing
\* procedure, whatever the other engines are doing.
C20_ProcedureAvailable ==
  [][last'.op = "reserve" => ~last'.err]_vars

\* C17: a reserve call changes at most one row, the one it returns; that
\* row is ready when it is changed, only its status changes (to processing),
\* and no row is added or deleted; so a row that is done or failed is never
\* changed by reserve.
C17_ReserveFrame ==
  [][last'.op = "reserve" =>
       /\ DOMAIN jobs' = DOMAIN jobs
       /\ \A j \in DOMAIN jobs :
            jobs'[j] # jobs[j] =>
              /\ j = last'.id
              /\ jobs[j].status = "ready"
              /\ jobs'[j].status = "processing"
              /\ Changed(j) = {"status"}]_vars

\* the rows a step moves from processing back to ready
Requeued == {j \in DOMAIN jobs \cap DOMAIN jobs' :
               jobs[j].status = "processing" /\ jobs'[j].status = "ready"}

\* the deadline d, in seconds from now, is exactly ms milliseconds from now
ExactlyAfter(d, ms) == d # NULL /\ ms # NULL /\ 1000 * d = ms

\* the deadline d, in seconds from now, is the whole second nearest to ms
\* milliseconds from now (the upper one of two), and NULL for a NULL duration
NearestSecondAfter(d, ms) ==
  IF ms = NULL THEN d = NULL
  ELSE d # NULL /\ 1000 * d - ms \in -499..500

\* C18 as claimed: every row refreshExpired requeues gets expires = now +
\* expirems milliseconds and keeps its stalls, every row refreshStalled
\* requeues gets stalls = now + stallms milliseconds and keeps its expires,
\* whatever the duration.
C18_DeadlineExact ==
  [][\A j \in Requeued :
       /\ last'.op = "refreshExpired" =>
            /\ ExactlyAfter(jobs'[j].expires, jobs[j].expirems)
            /\ jobs'[j].stalls = jobs[j].stalls
       /\ last'.op = "refreshStalled" =>
            /\ ExactlyAfter(jobs'[j].stalls, jobs[j].stallms)
            /\ jobs'[j].expires = jobs[j].expires]_vars

\* C18 as amended: every row refreshExpired requeues gets as expires the
\* whole second nearest to now + expirems milliseconds, NULL when expirems
\* is NULL, and keeps its stalls; every row refreshStalled requeues gets as
\* stalls the whole second nearest to now + stallms milliseconds, NULL when
\* stallms is NULL, and keeps its expires.
C18_DeadlineRounded ==
  [][\A j \in Requeued :
       /\ last'.op = "refreshExpired" =>
            /\ NearestSecondAfter(jobs'[j].expires, jobs[j].expirems)
            /\ jobs'[j].stalls = jobs[j].stalls
       /\ last'.op = "refreshStalled" =>
            /\ NearestSecondAfter(jobs'[j].stalls, jobs[j].stallms)
            /\ jobs'[j].expires = jobs[j].expires]_vars

\* a lease scan has just requeued a row whose lease lasts half a second: its
\* new deadline is a whole second ahead; next to it a row whose stall
\* duration is NULL has been requeued by a stall scan and has no stall
\* deadline
C18_Witness ==
  /\ last.op = "refreshExpired" /\ last.n = 1
  /\ \E j \in DOMAIN jobs :
       /\ jobs[j].status = "ready" /\ jobs[j].attempts = 1
       /\ jobs[j].expirems = 500 /\ jobs[j].expires = 1
  /\ \E j \in DOMAIN jobs :
       /\ jobs[j].status = "ready" /\ jobs[j].attempts = 1
       /\ jobs[j].stallms = NULL /\ jobs[j].stalls = NULL
       /\ jobs[j].workerid = NULL

\* a duration that has not run out the moment it starts
Lasting(ms) == ms = NULL \/ ms > 0

\* C19: a scan that runs right after reserve returned a job, before its
\* holder could write anything and before any time has passed, does not
\* return that job to ready, provided the duration the scan goes by (expirems
\* for refreshExpired, stallms for refreshStalled) lasts.
C19_FreshClaimKept ==
  [][(last.op = "reserve" /\ last.rows # <<>> /\ ~last.err
        /\ last.id \in DOMAIN jobs /\ last'.op \in Scans) =>
       ((\/ last'.op = "refreshExpired" /\ Lasting(jobs[last.id].expirems)
         \/ last'.op = "refreshStalled" /\ Lasting(jobs[last.id].stallms)) =>
          jobs'[last.id].status = "processing")]_vars

====
